---- MODULE Spec2Model ----
(***************************************************************************)
(* Model of the SARIMA forecasting pipeline of src/sales_forecasting.py:   *)
(* validate_data, load_processed_data, determine_optimal_parameters,       *)
(* train_sarima_model, make_future_predictions, evaluate_forecast and the  *)
(* sequential steps of main.                                               *)
(*                                                                         *)
(* A DataFrame is a record [rows |-> sequence of points]; a point is       *)
(* [date, amount, isnull] with date a day number.  Python's None is the    *)
(* record None.  The statsmodels fit is outside the repository: a fitted   *)
(* model is a handle that remembers the data it was fitted on, its orders  *)
(* and a level offset, and a fit may raise.                                *)
(***************************************************************************)
EXTENDS Integers, Sequences, FiniteSets, TLC

VARIABLES
    daily_sales_csv,   \* rows of daily_sales_processed.csv, or None when unreadable
    pc,                \* position of main
    historical_data,   \* main's local: DataFrame or None
    validation,        \* outcome of the validate_data call of this run, or None
    model,             \* main's local: model fitted on the full series
    forecast_data,     \* main's local: forecast DataFrame or None
    forecast_csv,      \* content of forecast_data.csv
    test_period,       \* main's local
    train_data,        \* main's local
    test_data,         \* main's local
    test_model,        \* main's local: model fitted on the training slice
    metrics,           \* main's local: {'RMSE', 'MAPE'} or None
    log,               \* records emitted through logger, in order
    outcome,           \* "running", "completed" or "failed"
    trainer_calls,     \* data handed to train_sarima_model, in call order
    stages,            \* stages of main completed so far, in order
    forecast_by,       \* the model handle make_future_predictions was given
    metrics_by,        \* the model handle the held-out forecast came from
    call,              \* a direct call of one function: its name and arguments, or None
    result             \* what that call returned, or None

vars == <<daily_sales_csv, pc, historical_data, validation, model, forecast_data,
          forecast_csv, test_period, train_data, test_data, test_model, metrics,
          log, outcome, trainer_calls, stages, forecast_by, metrics_by, call, result>>

(***************************************************************************)
(* Bounds of the model and constants of the program                        *)
(***************************************************************************)
MaxLen == 94          \* longest input series
MaxDefectPos == 2     \* a missing / negative cell sits at one of the first rows
MaxZeroBack == 1      \* a zero amount sits at one of the last rows
MaxFairLen == 32      \* longest input series of the runs checked for termination
MaxPeriods == 4       \* longest horizon of a direct make_future_predictions call
MaxLastDate == 2      \* last known dates of such a call: 0..MaxLastDate
MaxEvalLen == 2       \* longest sequence of a direct evaluate_forecast call
MaxAmount == 2        \* amounts of such a call: 0..MaxAmount
ParamSpan == 2        \* series lengths tried around 0 and around 365
MaxRmse == 2          \* RMSE values of a selectBest call: 0..MaxRmse
MaxRepeat == 2        \* calls of selectBest on the same metrics
MaxOrders == 3        \* most orders in ecommerce_data_cleaned.csv
MaxDay == 15          \* order dates tried: the first two and the last two of 1..MaxDay
MaxOrderAmount == 1   \* order amounts: 1..MaxOrderAmount, or missing

MIN_POINTS == 14
MIN_HISTORY == 30
MAX_TEST_PERIOD == 30
TEST_DIVISOR == 3
MIN_TEST_WARN == 7
YEARLY_SAMPLES == 365
MONTHLY_PERIOD == 12
WEEKLY_PERIOD == 7
DEFAULT_PERIODS == 180
MAPE_WARN == 50

None == [none |-> TRUE]

Min(a, b) == IF a <= b THEN a ELSE b
Max(a, b) == IF a >= b THEN a ELSE b
Abs(a) == IF a >= 0 THEN a ELSE -a

(***************************************************************************)
(* Input series: one row per day, ascending dates, a weekly pattern of     *)
(* positive amounts, optionally one missing cell, one negative cell and    *)
(* one day without sales (amount 0, zeroBack rows from the end).           *)
(***************************************************************************)
BaseAmount(i) == 10 + (i % WEEKLY_PERIOD)

MakeSeries(n, nullAt, negAt, zeroBack) ==
    [i \in 1..n |->
        [date   |-> i,
         amount |-> IF i = negAt THEN -1
                    ELSE IF i = nullAt THEN 0
                    ELSE IF zeroBack > 0 /\ i = n - zeroBack + 1 THEN 0
                    ELSE BaseAmount(i),
         isnull |-> (i = nullAt /\ i # negAt)]]

InputSeries ==
    { MakeSeries(n, nullAt, negAt, zeroBack) :
        n \in 0..MaxLen, nullAt \in 0..MaxDefectPos, negAt \in 0..MaxDefectPos,
        zeroBack \in 0..MaxZeroBack }

DataFrame(rows) == [rows |-> rows]

\* a CSV file: the label of its value column and its rows
ValueColumns == {"amount", "sales"}
CsvFile(column, rows) == [column |-> column, rows |-> rows]

Entry(level, msg) == [level |-> level, msg |-> msg]

(***************************************************************************)
(* Python slicing df[:-k] and df[-k:] (k >= 0; -0 is 0)                    *)
(***************************************************************************)
SliceHead_overlap(rows, k) ==
    IF k = 0 THEN <<>>
    ELSE SubSeq(rows, 1, Max(Len(rows) - k + 1, 0))

SliceHead(rows, k) ==
    IF k = 0 THEN <<>>
    ELSE SubSeq(rows, 1, Max(Len(rows) - k, 0))

SliceTail_fromstart(rows, k) ==
    IF k = 0 THEN rows
    ELSE SubSeq(rows, 1, Min(k, Len(rows)))

SliceTail(rows, k) ==
    IF k = 0 THEN rows
    ELSE SubSeq(rows, Max(Len(rows) - k, 0) + 1, Len(rows))

(***************************************************************************)
(* validate_data: the checks in source order; the result carries the bool  *)
(* returned, the records logged and the frame as the call leaves it.       *)
(***************************************************************************)
AnyNull(rows) == \E i \in 1..Len(rows) : rows[i].isnull
AnyNegative(rows) == \E i \in 1..Len(rows) : ~rows[i].isnull /\ rows[i].amount < 0

validate_data_dropna(df) ==
    LET rows == df.rows
        kept == SelectSeq(rows, LAMBDA p : ~p.isnull)
    IN  IF Len(rows) = 0
        THEN [ok |-> FALSE, log |-> <<Entry("error", "Input data is empty")>>,
              df |-> DataFrame(kept)]
        ELSE IF Len(rows) < MIN_POINTS
        THEN [ok |-> FALSE,
              log |-> <<Entry("error", "Insufficient data points for forecasting (minimum 14 required)")>>,
              df |-> DataFrame(kept)]
        ELSE IF AnyNull(rows)
        THEN [ok |-> FALSE,
              log |-> <<Entry("warning", "Missing values detected in sales data")>>,
              df |-> DataFrame(kept)]
        ELSE IF AnyNegative(rows)
        THEN [ok |-> FALSE, log |-> <<Entry("error", "Negative sales values detected")>>,
              df |-> DataFrame(kept)]
        ELSE [ok |-> TRUE, log |-> <<>>, df |-> DataFrame(kept)]

validate_data_nullfirst(df) ==
    LET rows == df.rows
    IN  IF Len(rows) = 0
        THEN [ok |-> FALSE, log |-> <<Entry("error", "Input data is empty")>>, df |-> df]
        ELSE IF AnyNull(rows)
        THEN [ok |-> FALSE,
              log |-> <<Entry("warning", "Missing values detected in sales data")>>,
              df |-> df]
        ELSE IF Len(rows) < MIN_POINTS
        THEN [ok |-> FALSE,
              log |-> <<Entry("error", "Insufficient data points for forecasting (minimum 14 required)")>>,
              df |-> df]
        ELSE IF AnyNegative(rows)
        THEN [ok |-> FALSE, log |-> <<Entry("error", "Negative sales values detected")>>,
              df |-> df]
        ELSE [ok |-> TRUE, log |-> <<>>, df |-> df]

validate_data_noneg(df) ==
    LET rows == df.rows
    IN  IF Len(rows) = 0
        THEN [ok |-> FALSE, log |-> <<Entry("error", "Input data is empty")>>, df |-> df]
        ELSE IF Len(rows) < MIN_POINTS
        THEN [ok |-> FALSE,
              log |-> <<Entry("error", "Insufficient data points for forecasting (minimum 14 required)")>>,
              df |-> df]
        ELSE IF AnyNull(rows)
        THEN [ok |-> FALSE,
              log |-> <<Entry("warning", "Missing values detected in sales data")>>,
              df |-> df]
        ELSE [ok |-> TRUE, log |-> <<>>, df |-> df]

validate_data_negfirst(df) ==
    LET rows == df.rows
    IN  IF Len(rows) = 0
        THEN [ok |-> FALSE, log |-> <<Entry("error", "Input data is empty")>>, df |-> df]
        ELSE IF Len(rows) < MIN_POINTS
        THEN [ok |-> FALSE,
              log |-> <<Entry("error", "Insufficient data points for forecasting (minimum 14 required)")>>,
              df |-> df]
        ELSE IF AnyNegative(rows)
        THEN [ok |-> FALSE, log |-> <<Entry("error", "Negative sales values detected")>>,
              df |-> df]
        ELSE IF AnyNull(rows)
        THEN [ok |-> FALSE,
              log |-> <<Entry("warning", "Missing values detected in sales data")>>,
              df |-> df]
        ELSE [ok |-> TRUE, log |-> <<>>, df |-> df]

validate_data(df) ==
    LET rows == df.rows
    IN  IF Len(rows) = 0
        THEN [ok |-> FALSE, log |-> <<Entry("error", "Input data is empty")>>, df |-> df]
        ELSE IF Len(rows) < MIN_POINTS
        THEN [ok |-> FALSE,
              log |-> <<Entry("error", "Insufficient data points for forecasting (minimum 14 required)")>>,
              df |-> df]
        ELSE IF AnyNull(rows)
        THEN [ok |-> FALSE,
              log |-> <<Entry("warning", "Missing values detected in sales data")>>,
              df |-> df]
        ELSE IF AnyNegative(rows)
        THEN [ok |-> FALSE, log |-> <<Entry("error", "Negative sales values detected")>>,
              df |-> df]
        ELSE [ok |-> TRUE, log |-> <<>>, df |-> df]

(***************************************************************************)
(* load_processed_data: read the CSV, keep the amount column, validate.    *)
(* Result: the value returned, the validate_data outcome, the log records. *)
(* read_csv raises on an unreadable file and daily_sales[['amount']]       *)
(* raises KeyError when the value column has another label.                *)
(***************************************************************************)
load_processed_data_keep(file) ==
    IF file = None \/ file.column # "amount"
    THEN [ret |-> None, validation |-> None,
          log |-> <<Entry("info", "Loading processed time series data..."),
                    Entry("error", "Error loading data")>>]
    ELSE LET daily_sales == DataFrame(file.rows)
             v == validate_data(daily_sales)
         IN  [ret |-> v.df,
              validation |-> v,
              log |-> <<Entry("info", "Loading processed time series data...")>> \o v.log]

load_processed_data(file) ==
    IF file = None \/ file.column # "amount"
    THEN [ret |-> None, validation |-> None,
          log |-> <<Entry("info", "Loading processed time series data..."),
                    Entry("error", "Error loading data")>>]
    ELSE LET daily_sales == DataFrame(file.rows)
             v == validate_data(daily_sales)
         IN  [ret |-> IF v.ok THEN v.df ELSE None,
              validation |-> v,
              log |-> <<Entry("info", "Loading processed time series data...")>> \o v.log]

(***************************************************************************)
(* determine_optimal_parameters.  len(data) raises TypeError for an        *)
(* argument without a length (None, a number); the except clause then      *)
(* returns the fallback pair.                                              *)
(***************************************************************************)
Sized(data) == "rows" \in DOMAIN data

determine_optimal_parameters_gt(data) ==
    IF ~Sized(data)
    THEN [order |-> <<1, 1, 1>>, seasonal_order |-> <<1, 1, 1, 7>>]
    ELSE LET n_samples == Len(data.rows)
             seasonal_period == IF n_samples > YEARLY_SAMPLES THEN MONTHLY_PERIOD
                                ELSE WEEKLY_PERIOD
         IN  [order |-> <<1, 1, 1>>, seasonal_order |-> <<1, 1, 1, seasonal_period>>]

determine_optimal_parameters_noexcept(data) ==
    IF ~Sized(data)
    THEN None
    ELSE LET n_samples == Len(data.rows)
             seasonal_period == IF n_samples >= YEARLY_SAMPLES THEN MONTHLY_PERIOD
                                ELSE WEEKLY_PERIOD
         IN  [order |-> <<1, 1, 1>>, seasonal_order |-> <<1, 1, 1, seasonal_period>>]

determine_optimal_parameters(data) ==
    IF ~Sized(data)
    THEN [order |-> <<1, 1, 1>>, seasonal_order |-> <<1, 1, 1, 7>>]
    ELSE LET n_samples == Len(data.rows)
             seasonal_period == IF n_samples >= YEARLY_SAMPLES THEN MONTHLY_PERIOD
                                ELSE WEEKLY_PERIOD
         IN  [order |-> <<1, 1, 1>>, seasonal_order |-> <<1, 1, 1, seasonal_period>>]

\* the record determine_optimal_parameters logs on the way
determine_optimal_parameters_log(data) ==
    IF Sized(data) THEN Entry("info", "Selected model parameters")
    ELSE Entry("error", "Error determining parameters")

(***************************************************************************)
(* train_sarima_model.  fit is what SARIMAX(...).fit() does on this call:  *)
(* it raises, or the fitted model has a level offset (0 is an exact fit of *)
(* the weekly pattern).                                                    *)
(***************************************************************************)
FitOffsets == {0, 20}
FitOutcomes == {[raises |-> TRUE, offset |-> 0]} \cup
               {[raises |-> FALSE, offset |-> o] : o \in FitOffsets}

train_sarima_model(data, fit) ==
    LET params == determine_optimal_parameters(data)
    IN  IF fit.raises
        THEN [ret |-> None,
              log |-> <<Entry("info", "Training SARIMA model..."),
                        Entry("info", "Selected model parameters"),
                        Entry("error", "Error training model")>>]
        ELSE [ret |-> [kind |-> "SARIMAXResults",
                       trainedOn |-> data.rows,
                       order |-> params.order,
                       seasonal_order |-> params.seasonal_order,
                       offset |-> fit.offset],
              log |-> <<Entry("info", "Training SARIMA model..."),
                        Entry("info", "Selected model parameters")>>]

(***************************************************************************)
(* results.get_forecast(steps): predicted_mean and conf_int() per step.    *)
(* The fitted model repeats the last season of its data, shifted by its    *)
(* offset; the interval widens by one per step.                            *)
(***************************************************************************)
get_forecast(mdl, steps) ==
    LET rows == mdl.trainedOn
        n == Len(rows)
        period == mdl.seasonal_order[4]
        mean(k) == rows[n - period + ((k - 1) % period) + 1].amount + mdl.offset
    IN  [k \in 1..steps |->
            [predicted_mean |-> mean(k), lower |-> mean(k) - k, upper |-> mean(k) + k]]

(***************************************************************************)
(* make_future_predictions.  fault is "none" or "get_forecast" (the model  *)
(* call raises).  Result: the value returned, the content of               *)
(* forecast_data.csv after the call, whether model.get_forecast was        *)
(* invoked, the log records.                                               *)
(***************************************************************************)
ForecastFaults == {"none", "get_forecast"}

make_future_predictions_fromlast(mdl, last_date, periods, fault, csv_before) ==
    LET start == <<Entry("info", "Generating predictions")>>
    IN  IF periods <= 0
        THEN [ret |-> None, csv |-> csv_before, invoked |-> FALSE,
              log |-> start \o <<Entry("error", "Invalid forecast period")>>]
        ELSE IF mdl = None \/ mdl.kind \notin {"SARIMAX", "SARIMAXResults"}
        THEN [ret |-> None, csv |-> csv_before, invoked |-> FALSE,
              log |-> start \o <<Entry("error", "Invalid model type")>>]
        ELSE IF fault = "get_forecast"
        THEN [ret |-> None, csv |-> csv_before, invoked |-> TRUE,
              log |-> start \o <<Entry("error", "Error generating predictions")>>]
        ELSE LET forecast == get_forecast(mdl, periods)
                 forecast_df ==
                     DataFrame([k \in 1..periods |->
                         [date            |-> last_date + k - 1,
                          predicted_sales |-> forecast[k].predicted_mean,
                          lower_ci        |-> forecast[k].lower,
                          upper_ci        |-> forecast[k].upper]])
             IN  [ret |-> forecast_df, csv |-> forecast_df, invoked |-> TRUE,
                  log |-> start \o <<Entry("info", "Forecast data saved to forecast_data.csv")>>]

make_future_predictions_swapci(mdl, last_date, periods, fault, csv_before) ==
    LET start == <<Entry("info", "Generating predictions")>>
    IN  IF periods <= 0
        THEN [ret |-> None, csv |-> csv_before, invoked |-> FALSE,
              log |-> start \o <<Entry("error", "Invalid forecast period")>>]
        ELSE IF mdl = None \/ mdl.kind \notin {"SARIMAX", "SARIMAXResults"}
        THEN [ret |-> None, csv |-> csv_before, invoked |-> FALSE,
              log |-> start \o <<Entry("error", "Invalid model type")>>]
        ELSE IF fault = "get_forecast"
        THEN [ret |-> None, csv |-> csv_before, invoked |-> TRUE,
              log |-> start \o <<Entry("error", "Error generating predictions")>>]
        ELSE LET forecast == get_forecast(mdl, periods)
                 forecast_df ==
                     DataFrame([k \in 1..periods |->
                         [date            |-> last_date + k,
                          predicted_sales |-> forecast[k].predicted_mean,
                          lower_ci        |-> forecast[k].upper,
                          upper_ci        |-> forecast[k].lower]])
             IN  [ret |-> forecast_df, csv |-> forecast_df, invoked |-> TRUE,
                  log |-> start \o <<Entry("info", "Forecast data saved to forecast_data.csv")>>]

make_future_predictions_latecheck(mdl, last_date, periods, fault, csv_before) ==
    LET start == <<Entry("info", "Generating predictions")>>
    IN  IF periods <= 0
        THEN [ret |-> None, csv |-> csv_before, invoked |-> FALSE,
              log |-> start \o <<Entry("error", "Invalid forecast period")>>]
        ELSE IF mdl = None \/ mdl.kind \notin {"SARIMAX", "SARIMAXResults"}
        THEN [ret |-> None, csv |-> csv_before, invoked |-> TRUE,
              log |-> start \o <<Entry("error", "Invalid model type")>>]
        ELSE IF fault = "get_forecast"
        THEN [ret |-> None, csv |-> csv_before, invoked |-> TRUE,
              log |-> start \o <<Entry("error", "Error generating predictions")>>]
        ELSE LET forecast == get_forecast(mdl, periods)
                 forecast_df ==
                     DataFrame([k \in 1..periods |->
                         [date            |-> last_date + k,
                          predicted_sales |-> forecast[k].predicted_mean,
                          lower_ci        |-> forecast[k].lower,
                          upper_ci        |-> forecast[k].upper]])
             IN  [ret |-> forecast_df, csv |-> forecast_df, invoked |-> TRUE,
                  log |-> start \o <<Entry("info", "Forecast data saved to forecast_data.csv")>>]

make_future_predictions(mdl, last_date, periods, fault, csv_before) ==
    LET start == <<Entry("info", "Generating predictions")>>
    IN  IF periods <= 0
        THEN [ret |-> None, csv |-> csv_before, invoked |-> FALSE,
              log |-> start \o <<Entry("error", "Invalid forecast period")>>]
        ELSE IF mdl = None \/ mdl.kind \notin {"SARIMAX", "SARIMAXResults"}
        THEN [ret |-> None, csv |-> csv_before, invoked |-> FALSE,
              log |-> start \o <<Entry("error", "Invalid model type")>>]
        ELSE IF fault = "get_forecast"
        THEN [ret |-> None, csv |-> csv_before, invoked |-> TRUE,
              log |-> start \o <<Entry("error", "Error generating predictions")>>]
        ELSE LET forecast == get_forecast(mdl, periods)
                 forecast_df ==
                     DataFrame([k \in 1..periods |->
                         [date            |-> last_date + k,
                          predicted_sales |-> forecast[k].predicted_mean,
                          lower_ci        |-> forecast[k].lower,
                          upper_ci        |-> forecast[k].upper]])
             IN  [ret |-> forecast_df, csv |-> forecast_df, invoked |-> TRUE,
                  log |-> start \o <<Entry("info", "Forecast data saved to forecast_data.csv")>>]

(***************************************************************************)
(* evaluate_forecast.  A metric is NaN or a number: RMSE in tenths        *)
(* (rounded so that it is 0 exactly when the squared error is 0), MAPE in  *)
(* hundredths of a percent; sklearn divides by max(|actual|, eps),         *)
(* so a zero actual with a non-zero error makes MAPE astronomically large  *)
(* (huge counts such terms).                                               *)
(***************************************************************************)
NaN == [nan |-> TRUE]
Num(v, huge) == [nan |-> FALSE, v |-> v, huge |-> huge]

RECURSIVE SumTo(_, _)
SumTo(f, n) == IF n = 0 THEN 0 ELSE f[n] + SumTo(f, n - 1)

RECURSIVE IsqrtBetween(_, _, _)
IsqrtBetween(x, lo, hi) ==
    IF lo >= hi THEN lo
    ELSE LET mid == (lo + hi + 1) \div 2
         IN  IF mid * mid <= x THEN IsqrtBetween(x, mid, hi)
             ELSE IsqrtBetween(x, lo, mid - 1)

Isqrt(x) == IsqrtBetween(x, 0, Min(x, 40000))

mean_squared_error_x100_signed(actual, predicted) ==
    LET n == Len(actual)
        err == [i \in 1..n |-> actual[i] - predicted[i]]
    IN  (100 * SumTo(err, n) + n - 1) \div n

mean_squared_error_x100(actual, predicted) ==
    LET n == Len(actual)
        sq == [i \in 1..n |-> (actual[i] - predicted[i]) * (actual[i] - predicted[i])]
    IN  (100 * SumTo(sq, n) + n - 1) \div n

mean_absolute_percentage_error(actual, predicted) ==
    LET n == Len(actual)
        ape == [i \in 1..n |->
                   IF actual[i] = 0 THEN 0
                   ELSE (Abs(actual[i] - predicted[i]) * 10000) \div Abs(actual[i])]
        huge == Cardinality({i \in 1..n : actual[i] = 0 /\ predicted[i] # 0})
    IN  Num(SumTo(ape, n) \div n, huge)

evaluate_forecast(actual, predicted) ==
    IF Len(actual) = 0 \/ Len(actual) # Len(predicted)
    THEN [ret |-> [RMSE |-> NaN, MAPE |-> NaN],
          log |-> <<Entry("error", "Error calculating metrics")>>]
    ELSE [ret |-> [RMSE |-> Num(Isqrt(mean_squared_error_x100(actual, predicted)), 0),
                   MAPE |-> mean_absolute_percentage_error(actual, predicted)],
          log |-> <<Entry("info", "Forecast metrics")>>]

GreaterThan_reversed(metric, limit) ==
    ~metric.nan /\ metric.huge = 0 /\ metric.v < limit * 100

GreaterThan(metric, limit) ==
    ~metric.nan /\ (metric.huge > 0 \/ metric.v > limit * 100)

Amounts(rows) == [i \in 1..Len(rows) |-> rows[i].amount]

(***************************************************************************)
(* main, one action per step of its body                                   *)
(***************************************************************************)
Init ==
    /\ daily_sales_csv \in {None} \cup
           {CsvFile(column, rows) : column \in ValueColumns, rows \in InputSeries}
    /\ pc = "load"
    /\ historical_data = None
    /\ validation = None
    /\ model = None
    /\ forecast_data = None
    /\ forecast_csv = None
    /\ test_period = 0
    /\ train_data = None
    /\ test_data = None
    /\ test_model = None
    /\ metrics = None
    /\ log = <<>>
    /\ outcome = "running"
    /\ trainer_calls = <<>>
    /\ stages = <<>>
    /\ forecast_by = None
    /\ metrics_by = None
    /\ call = None
    /\ result = None

Fail_completed(entries) ==
    /\ log' = log \o entries
    /\ outcome' = "completed"
    /\ pc' = "done"

Fail(entries) ==
    /\ log' = log \o entries
    /\ outcome' = "failed"
    /\ pc' = "done"

\* historical_data = load_processed_data(); if historical_data is None: return
LoadStep ==
    /\ pc = "load"
    /\ LET r == load_processed_data(daily_sales_csv)
       IN  /\ historical_data' = r.ret
           /\ validation' = r.validation
           /\ stages' = Append(stages, "validate")
           /\ IF r.ret = None
              THEN Fail(r.log \o <<Entry("error", "Failed to load valid data")>>)
              ELSE /\ log' = log \o r.log
                   /\ pc' = "check_len"
                   /\ UNCHANGED outcome
    /\ UNCHANGED <<call, result>>
    /\ UNCHANGED <<daily_sales_csv, model, forecast_data, forecast_csv, test_period,
                   train_data, test_data, test_model, metrics, trainer_calls,
                   forecast_by, metrics_by>>

\* if len(historical_data) < 30: return
CheckLenStep_nocheck ==
    /\ pc = "check_len"
    /\ pc' = "train"
    /\ UNCHANGED <<call, result>>
    /\ UNCHANGED <<daily_sales_csv, historical_data, validation, model, forecast_data,
                   forecast_csv, test_period, train_data, test_data, test_model,
                   metrics, log, outcome, trainer_calls, stages, forecast_by, metrics_by>>

CheckLenStep ==
    /\ pc = "check_len"
    /\ IF Len(historical_data.rows) < MIN_HISTORY
       THEN Fail(<<Entry("error", "Insufficient historical data for reliable forecasting (minimum 30 days required)")>>)
       ELSE /\ pc' = "train"
            /\ UNCHANGED <<log, outcome>>
    /\ UNCHANGED <<call, result>>
    /\ UNCHANGED <<daily_sales_csv, historical_data, validation, model, forecast_data,
                   forecast_csv, test_period, train_data, test_data, test_model,
                   metrics, trainer_calls, stages, forecast_by, metrics_by>>

\* model = train_sarima_model(data); if model is None: return
TrainOn(data, next_pc) ==
    /\ pc = "train"
    /\ \E fit \in FitOutcomes :
         LET r == train_sarima_model(data, fit)
         IN  /\ model' = r.ret
             /\ trainer_calls' = Append(trainer_calls, data)
             /\ IF r.ret = None
                THEN /\ Fail(r.log \o <<Entry("error", "Failed to train model")>>)
                     /\ UNCHANGED stages
                ELSE /\ log' = log \o r.log
                     /\ pc' = next_pc
                     /\ stages' = Append(stages, "train_full")
                     /\ UNCHANGED outcome
    /\ UNCHANGED <<call, result>>
    /\ UNCHANGED <<daily_sales_csv, historical_data, validation, forecast_data,
                   forecast_csv, test_period, train_data, test_data, test_model,
                   metrics, forecast_by, metrics_by>>

TrainStep_skipforecast == TrainOn(historical_data, "split")

TrainStep_onslice ==
    TrainOn(DataFrame(SubSeq(historical_data.rows, 1,
                             Len(historical_data.rows)
                               - Min(MAX_TEST_PERIOD,
                                     Len(historical_data.rows) \div TEST_DIVISOR))),
            "predict")

TrainStep_unchecked ==
    /\ pc = "train"
    /\ \E fit \in FitOutcomes :
         LET r == train_sarima_model(historical_data, fit)
         IN  /\ model' = r.ret
             /\ trainer_calls' = Append(trainer_calls, historical_data)
             /\ log' = log \o r.log
    /\ pc' = "predict"
    /\ stages' = Append(stages, "train_full")
    /\ UNCHANGED <<call, result>>
    /\ UNCHANGED <<daily_sales_csv, historical_data, validation, forecast_data,
                   forecast_csv, test_period, train_data, test_data, test_model,
                   metrics, outcome, forecast_by, metrics_by>>

TrainStep == TrainOn(historical_data, "predict")

\* forecast_data = make_future_predictions(model, historical_data.index[-1])
PredictStep ==
    /\ pc = "predict"
    /\ \E fault \in ForecastFaults :
         LET last_date == historical_data.rows[Len(historical_data.rows)].date
             r == make_future_predictions(model, last_date, DEFAULT_PERIODS, fault,
                                          forecast_csv)
         IN  /\ forecast_data' = r.ret
             /\ forecast_csv' = r.csv
             /\ IF r.ret = None
                THEN /\ Fail(r.log \o <<Entry("error", "Failed to generate predictions")>>)
                     /\ UNCHANGED <<stages, forecast_by>>
                ELSE /\ log' = log \o r.log
                     /\ pc' = "split"
                     /\ stages' = Append(stages, "forecast")
                     /\ forecast_by' = model
                     /\ UNCHANGED outcome
    /\ UNCHANGED <<call, result>>
    /\ UNCHANGED <<daily_sales_csv, historical_data, validation, model, test_period,
                   train_data, test_data, test_model, metrics, trainer_calls, metrics_by>>

\* test_period = min(30, len(historical_data) // 3); train_data, test_data = slices
SplitStep ==
    /\ pc = "split"
    /\ LET period == Min(MAX_TEST_PERIOD, Len(historical_data.rows) \div TEST_DIVISOR)
       IN  /\ test_period' = period
           /\ log' = IF period < MIN_TEST_WARN
                     THEN Append(log, Entry("warning", "Test period is less than 7 days, forecast accuracy metrics may be unreliable"))
                     ELSE log
           /\ train_data' = DataFrame(SliceHead(historical_data.rows, period))
           /\ test_data' = DataFrame(SliceTail(historical_data.rows, period))
    /\ pc' = "train_test"
    /\ stages' = Append(stages, "split")
    /\ UNCHANGED <<call, result>>
    /\ UNCHANGED <<daily_sales_csv, historical_data, validation, model, forecast_data,
                   forecast_csv, test_model, metrics, outcome, trainer_calls,
                   forecast_by, metrics_by>>

TrainTestStep_retry ==
    /\ pc = "train_test"
    /\ \E fit \in FitOutcomes :
         LET r == train_sarima_model(train_data, fit)
         IN  /\ test_model' = r.ret
             /\ trainer_calls' = Append(trainer_calls, train_data)
             /\ IF r.ret = None
                THEN /\ IF Len(trainer_calls) < 3
                        THEN /\ log' = log \o r.log
                             /\ UNCHANGED <<pc, outcome>>
                        ELSE Fail(r.log \o <<Entry("error", "Failed to train test model")>>)
                     /\ UNCHANGED stages
                ELSE /\ log' = log \o r.log
                     /\ pc' = "evaluate"
                     /\ stages' = Append(stages, "train_slice")
                     /\ UNCHANGED outcome
    /\ UNCHANGED <<call, result>>
    /\ UNCHANGED <<daily_sales_csv, historical_data, validation, model, forecast_data,
                   forecast_csv, test_period, train_data, test_data, metrics,
                   forecast_by, metrics_by>>

\* test_model = train_sarima_model(train_data); if test_model is None: return
TrainTestStep ==
    /\ pc = "train_test"
    /\ \E fit \in FitOutcomes :
         LET r == train_sarima_model(train_data, fit)
         IN  /\ test_model' = r.ret
             /\ trainer_calls' = Append(trainer_calls, train_data)
             /\ IF r.ret = None
                THEN /\ Fail(r.log \o <<Entry("error", "Failed to train test model")>>)
                     /\ UNCHANGED stages
                ELSE /\ log' = log \o r.log
                     /\ pc' = "evaluate"
                     /\ stages' = Append(stages, "train_slice")
                     /\ UNCHANGED outcome
    /\ UNCHANGED <<call, result>>
    /\ UNCHANGED <<daily_sales_csv, historical_data, validation, model, forecast_data,
                   forecast_csv, test_period, train_data, test_data, metrics,
                   forecast_by, metrics_by>>

\* the inner try: held-out forecast, evaluate_forecast, the MAPE > 50 warning;
\* on an exception both metrics are NaN
EvaluateStep ==
    /\ pc = "evaluate"
    /\ \E scored \in BOOLEAN :
         IF ~scored
         THEN /\ metrics' = [RMSE |-> NaN, MAPE |-> NaN]
              /\ log' = Append(log, Entry("error", "Error calculating forecast metrics"))
              /\ UNCHANGED metrics_by
         ELSE LET fc == get_forecast(test_model, test_period)
                  test_predictions == [k \in 1..test_period |-> fc[k].predicted_mean]
                  r == evaluate_forecast(Amounts(test_data.rows), test_predictions)
              IN  /\ metrics' = r.ret
                  /\ metrics_by' = test_model
                  /\ log' = log \o r.log \o
                            (IF GreaterThan(r.ret.MAPE, MAPE_WARN)
                             THEN <<Entry("warning", "High forecast error, predictions may be unreliable")>>
                             ELSE <<>>)
    /\ pc' = "visualize"
    /\ stages' = Append(stages, "evaluate")
    /\ UNCHANGED <<call, result>>
    /\ UNCHANGED <<daily_sales_csv, historical_data, validation, model, forecast_data,
                   forecast_csv, test_period, train_data, test_data, test_model,
                   outcome, trainer_calls, forecast_by>>

VisualizeStep_propagates ==
    /\ pc = "visualize"
    /\ \E raises \in BOOLEAN :
         IF raises
         THEN /\ Fail(<<Entry("info", "Creating forecast visualizations..."),
                        Entry("error", "Error creating visualizations")>>)
              /\ UNCHANGED stages
         ELSE /\ log' = log \o <<Entry("info", "Creating forecast visualizations..."),
                                 Entry("info", "Forecast visualizations created successfully")>>
              /\ pc' = "report"
              /\ stages' = Append(stages, "visualize")
              /\ UNCHANGED outcome
    /\ UNCHANGED <<call, result>>
    /\ UNCHANGED <<daily_sales_csv, historical_data, validation, model, forecast_data,
                   forecast_csv, test_period, train_data, test_data, test_model,
                   metrics, trainer_calls, forecast_by, metrics_by>>

\* visualize_forecast(historical_data, forecast_data): errors are logged, not raised
VisualizeStep ==
    /\ pc = "visualize"
    /\ \E raises \in BOOLEAN :
         log' = log \o <<Entry("info", "Creating forecast visualizations...")>> \o
                (IF raises THEN <<Entry("error", "Error creating visualizations")>>
                 ELSE <<Entry("info", "Forecast visualizations created successfully")>>)
    /\ pc' = "report"
    /\ stages' = Append(stages, "visualize")
    /\ UNCHANGED <<call, result>>
    /\ UNCHANGED <<daily_sales_csv, historical_data, validation, model, forecast_data,
                   forecast_csv, test_period, train_data, test_data, test_model,
                   metrics, outcome, trainer_calls, forecast_by, metrics_by>>

\* generate_forecast_report(...); "Sales forecasting analysis completed successfully!"
ReportStep ==
    /\ pc = "report"
    /\ \E raises \in BOOLEAN :
         log' = log \o <<Entry("info", "Generating forecast report...")>> \o
                (IF raises THEN <<Entry("error", "Error generating forecast report")>>
                 ELSE <<Entry("info", "Forecast report generated successfully")>>) \o
                <<Entry("info", "Sales forecasting analysis completed successfully!")>>
    /\ pc' = "done"
    /\ outcome' = "completed"
    /\ stages' = Append(stages, "report")
    /\ UNCHANGED <<call, result>>
    /\ UNCHANGED <<daily_sales_csv, historical_data, validation, model, forecast_data,
                   forecast_csv, test_period, train_data, test_data, test_model,
                   metrics, trainer_calls, forecast_by, metrics_by>>

Next ==
    \/ LoadStep
    \/ CheckLenStep
    \/ TrainStep
    \/ PredictStep
    \/ SplitStep
    \/ TrainTestStep
    \/ EvaluateStep
    \/ VisualizeStep
    \/ ReportStep

Spec == Init /\ [][Next]_vars

\* main is one sequential thread: a step that can be taken is taken
FairInit ==
    /\ Init
    /\ daily_sales_csv # None => Len(daily_sales_csv.rows) <= MaxFairLen

FairSpec == FairInit /\ [][Next]_vars /\ WF_vars(Next)

(***************************************************************************)
(* The Prophet pipeline of src/sales_predictions.py: load_processed_data   *)
(* (which validates nothing), prepare_data_for_prophet,                    *)
(* train_prophet_model and the steps of main.  What the script prints is   *)
(* kept in log at level "print".  The Prophet library is outside the       *)
(* repository: fit drops the rows without a value and raises when fewer    *)
(* than 2 remain (or for a reason of its own); the frame it predicts on    *)
(* holds the dates of the history followed by forecast_periods days.       *)
(***************************************************************************)
MaxProphetLen == 16       \* longest input series of the Prophet runs

PROPHET_PERIODS == 365
DECOMPOSE_PERIOD == 7

prophet_load_processed_data(file) ==
    IF file = None \/ file.column # "amount"
    THEN [raised |-> TRUE, ret |-> None]
    ELSE [raised |-> FALSE, ret |-> DataFrame(file.rows)]

prepare_data_for_prophet(daily_sales) ==
    [i \in 1..Len(daily_sales.rows) |->
        [ds     |-> daily_sales.rows[i].date,
         y      |-> daily_sales.rows[i].amount,
         isnull |-> daily_sales.rows[i].isnull]]

train_prophet_model_inclusive(prophet_data, forecast_periods, fit) ==
    LET history == SelectSeq(prophet_data, LAMBDA p : ~p.isnull)
        n == Len(prophet_data)
    IN  IF Len(history) < 2 \/ fit.raises
        THEN [raised |-> TRUE, model |-> None, forecast |-> None]
        ELSE LET last_date == prophet_data[n].ds
                 level == history[Len(history)].y + fit.offset
                 future_dates ==
                     [k \in 1..(n + forecast_periods - 1) |->
                         IF k <= n THEN prophet_data[k].ds ELSE last_date + (k - n)]
             IN  [raised |-> FALSE,
                  model |-> [kind |-> "Prophet", trainedOn |-> prophet_data,
                             offset |-> fit.offset],
                  forecast |-> DataFrame([k \in 1..Len(future_dates) |->
                      [ds         |-> future_dates[k],
                       yhat       |-> level,
                       yhat_lower |-> level - 1,
                       yhat_upper |-> level + 1]])]

train_prophet_model(prophet_data, forecast_periods, fit) ==
    LET history == SelectSeq(prophet_data, LAMBDA p : ~p.isnull)
        n == Len(prophet_data)
    IN  IF Len(history) < 2 \/ fit.raises
        THEN [raised |-> TRUE, model |-> None, forecast |-> None]
        ELSE LET last_date == prophet_data[n].ds
                 level == history[Len(history)].y + fit.offset
                 future_dates ==
                     [k \in 1..(n + forecast_periods) |->
                         IF k <= n THEN prophet_data[k].ds ELSE last_date + (k - n)]
             IN  [raised |-> FALSE,
                  model |-> [kind |-> "Prophet", trainedOn |-> prophet_data,
                             offset |-> fit.offset],
                  forecast |-> DataFrame([k \in 1..Len(future_dates) |->
                      [ds         |-> future_dates[k],
                       yhat       |-> level,
                       yhat_lower |-> level - 1,
                       yhat_upper |-> level + 1]])]

\* main's except clause: print the error, return
ProphetFail(entries) ==
    /\ log' = log \o entries \o
               <<Entry("print", "Error occurred during sales prediction")>>
    /\ outcome' = "failed"
    /\ pc' = "done"

\* daily_sales = load_processed_data()
ProphetLoadStep ==
    /\ pc = "p_load"
    /\ LET r == prophet_load_processed_data(daily_sales_csv)
       IN  /\ historical_data' = r.ret
           /\ IF r.raised
              THEN ProphetFail(<<Entry("print", "Loading processed time series data...")>>)
              ELSE /\ log' = Append(log, Entry("print", "Loading processed time series data..."))
                   /\ pc' = "p_train"
                   /\ UNCHANGED outcome
    /\ UNCHANGED <<daily_sales_csv, validation, model, forecast_data, forecast_csv,
                   test_period, train_data, test_data, test_model, metrics,
                   trainer_calls, stages, forecast_by, metrics_by, call, result>>

\* prophet_data, holidays = prepare_data_for_prophet(daily_sales)
\* model, forecast = train_prophet_model(prophet_data, holidays)
ProphetTrainStep ==
    /\ pc = "p_train"
    /\ \E fit \in FitOutcomes :
         LET prophet_data == prepare_data_for_prophet(historical_data)
             r == train_prophet_model(prophet_data, PROPHET_PERIODS, fit)
             said == <<Entry("print", "Preparing data for Prophet model..."),
                       Entry("print", "Training Prophet model and generating predictions...")>>
         IN  /\ trainer_calls' = Append(trainer_calls, historical_data)
             /\ model' = r.model
             /\ forecast_data' = r.forecast
             /\ IF r.raised
                THEN ProphetFail(said)
                ELSE /\ log' = log \o said
                     /\ pc' = "p_report"
                     /\ UNCHANGED outcome
    /\ UNCHANGED <<daily_sales_csv, historical_data, validation, forecast_csv,
                   test_period, train_data, test_data, test_model, metrics,
                   stages, forecast_by, metrics_by, call, result>>

\* analyze_seasonal_patterns, create_prediction_visualizations,
\* calculate_growth_metrics, generate_prediction_report; any of them may raise
ProphetReportStep ==
    /\ pc = "p_report"
    /\ \E raises \in BOOLEAN :
         IF raises
         THEN ProphetFail(<<Entry("print", "Analyzing seasonal patterns...")>>)
         ELSE /\ log' = log \o
                   <<Entry("print", "Analyzing seasonal patterns..."),
                     Entry("print", "Creating prediction visualizations..."),
                     Entry("print", "Calculating growth metrics..."),
                     Entry("print", "Generating prediction report..."),
                     Entry("print", "Sales prediction analysis completed successfully!")>>
              /\ outcome' = "completed"
              /\ pc' = "done"
    /\ UNCHANGED <<daily_sales_csv, historical_data, validation, model, forecast_data,
                   forecast_csv, test_period, train_data, test_data, test_model,
                   metrics, trainer_calls, stages, forecast_by, metrics_by, call,
                   result>>

NextProphet ==
    \/ ProphetLoadStep
    \/ ProphetTrainStep
    \/ ProphetReportStep

InitProphet ==
    /\ daily_sales_csv \in {None} \cup
           {CsvFile(column, rows) :
               column \in ValueColumns,
               rows \in {r \in InputSeries : Len(r) <= MaxProphetLen}}
    /\ pc = "p_load"
    /\ call = [fn |-> "sales_predictions.main"]
    /\ result = None
    /\ historical_data = None
    /\ validation = None
    /\ model = None
    /\ forecast_data = None
    /\ forecast_csv = None
    /\ test_period = 0
    /\ train_data = None
    /\ test_data = None
    /\ test_model = None
    /\ metrics = None
    /\ log = <<>>
    /\ outcome = "running"
    /\ trainer_calls = <<>>
    /\ stages = <<>>
    /\ forecast_by = None
    /\ metrics_by = None

\* the two forecasting scripts of the repository, one run of either
InitPipelines == FairInit \/ InitProphet

NextPipelines == Next \/ NextProphet

SpecPipelines == InitPipelines /\ [][NextPipelines]_vars

(***************************************************************************)
(* Direct calls of make_future_predictions, evaluate_forecast and          *)
(* determine_optimal_parameters, one call per behaviour, over the          *)
(* arguments a caller can pass.                                            *)
(***************************************************************************)
SeqsUpTo(S, n) == UNION {[1..k -> S] : k \in 0..n}

CallModels ==
    {train_sarima_model(DataFrame(MakeSeries(MIN_POINTS, 0, 0, z)), fit).ret :
        z \in 0..1, fit \in FitOutcomes}
    \cup {[kind |-> "Prophet"]}

PredictCalls ==
    {[fn |-> "make_future_predictions", model |-> m, last_date |-> d,
      periods |-> n, fault |-> f] :
        m \in CallModels, d \in 0..MaxLastDate, n \in (-1)..MaxPeriods,
        f \in ForecastFaults}

EvaluateCalls ==
    {[fn |-> "evaluate_forecast", actual |-> a, predicted |-> p] :
        a \in SeqsUpTo(0..MaxAmount, MaxEvalLen),
        p \in SeqsUpTo(0..MaxAmount, MaxEvalLen)}

ParamLens == (0..ParamSpan) \cup
             ((YEARLY_SAMPLES - ParamSpan)..(YEARLY_SAMPLES + ParamSpan))

\* arguments len() does not accept
Unsized == {None, [scalar |-> 0]}

ParamCalls ==
    {[fn |-> "determine_optimal_parameters",
      data |-> DataFrame(MakeSeries(n, nullAt, negAt, zeroBack))] :
        n \in ParamLens, nullAt \in 0..1, negAt \in {0, 2}, zeroBack \in 0..1}
    \cup {[fn |-> "determine_optimal_parameters", data |-> d] : d \in Unsized}

(***************************************************************************)
(* The preparation script src/time_series_analysis.py, which writes        *)
(* daily_sales_processed.csv.  An order is [order_date, amount, isnull];   *)
(* order_date is a date (a day number).  aggregate_sales_data: one row per *)
(* distinct order_date, ascending, the sum of its amounts (a missing       *)
(* amount adds nothing).  handle_missing_data: reindex over every day from *)
(* the first to the last date, fill with 0; on no rows the date range      *)
(* cannot be built and the call raises.                                    *)
(***************************************************************************)
RECURSIVE DaySum(_, _, _)
DaySum(df, d, n) ==
    IF n = 0 THEN 0
    ELSE DaySum(df, d, n - 1) +
         (IF df[n].order_date = d /\ ~df[n].isnull THEN df[n].amount ELSE 0)

aggregate_sales_data(df) ==
    LET days == {df[i].order_date : i \in 1..Len(df)}
        nth(i) == CHOOSE d \in days : Cardinality({e \in days : e < d}) = i - 1
    IN  DataFrame([i \in 1..Cardinality(days) |->
            [date |-> nth(i), amount |-> DaySum(df, nth(i), Len(df)), isnull |-> FALSE]])

handle_missing_data_nofill(daily_sales) ==
    LET rows == daily_sales.rows
    IN  IF Len(rows) = 0
        THEN [raised |-> TRUE, ret |-> None]
        ELSE LET first == rows[1].date
                 last == rows[Len(rows)].date
                 at(d) == {i \in 1..Len(rows) : rows[i].date = d}
             IN  [raised |-> FALSE,
                  ret |-> DataFrame([k \in 1..(last - first + 1) |->
                      LET d == first + k - 1
                      IN  IF at(d) = {}
                          THEN [date |-> d, amount |-> 0, isnull |-> TRUE]
                          ELSE rows[CHOOSE i \in at(d) : TRUE]])]

handle_missing_data(daily_sales) ==
    LET rows == daily_sales.rows
    IN  IF Len(rows) = 0
        THEN [raised |-> TRUE, ret |-> None]
        ELSE LET first == rows[1].date
                 last == rows[Len(rows)].date
                 at(d) == {i \in 1..Len(rows) : rows[i].date = d}
             IN  [raised |-> FALSE,
                  ret |-> DataFrame([k \in 1..(last - first + 1) |->
                      LET d == first + k - 1
                      IN  IF at(d) = {}
                          THEN [date |-> d, amount |-> 0, isnull |-> FALSE]
                          ELSE [rows[CHOOSE i \in at(d) : TRUE] EXCEPT !.isnull = FALSE]])]

OrderDays == {1, 2, MaxDay - 1, MaxDay}

Orders ==
    {[order_date |-> d, amount |-> a, isnull |-> FALSE] :
        d \in OrderDays, a \in 1..MaxOrderAmount}
    \cup {[order_date |-> d, amount |-> 0, isnull |-> TRUE] : d \in OrderDays}

PrepareCalls ==
    {[fn |-> "time_series_analysis.main", df |-> df] : df \in SeqsUpTo(Orders, MaxOrders)}

(***************************************************************************)
(* selectBest(metricsByVariant) of the Evaluator.  No file of the          *)
(* repository implements it (sales_forecasting.py trains SARIMA only), so  *)
(* it is written from the specification: scan the variants in their        *)
(* declared order and keep a variant only when its RMSE is strictly below  *)
(* the best so far.                                                        *)
(***************************************************************************)
Variants == <<"HoltWinters", "ARIMA", "SARIMA", "Prophet", "LSTM">>

RECURSIVE selectBestFrom_last(_, _, _)
selectBestFrom_last(metricsByVariant, i, best) ==
    IF i > Len(Variants) THEN best
    ELSE LET v == Variants[i]
         IN  IF /\ v \in DOMAIN metricsByVariant
                /\ (best = "" \/ metricsByVariant[v].RMSE <= metricsByVariant[best].RMSE)
             THEN selectBestFrom_last(metricsByVariant, i + 1, v)
             ELSE selectBestFrom_last(metricsByVariant, i + 1, best)

RECURSIVE selectBestFrom(_, _, _)
selectBestFrom(metricsByVariant, i, best) ==
    IF i > Len(Variants) THEN best
    ELSE LET v == Variants[i]
         IN  IF /\ v \in DOMAIN metricsByVariant
                /\ (best = "" \/ metricsByVariant[v].RMSE < metricsByVariant[best].RMSE)
             THEN selectBestFrom(metricsByVariant, i + 1, v)
             ELSE selectBestFrom(metricsByVariant, i + 1, best)

selectBest(metricsByVariant) == selectBestFrom(metricsByVariant, 1, "")

\* the metrics of the evaluated variants: at least one variant
SelectCalls ==
    {[fn |-> "selectBest", metricsByVariant |-> m] :
        m \in UNION {[S -> [RMSE : 0..MaxRmse]] :
                        S \in (SUBSET {Variants[i] : i \in 1..Len(Variants)}) \ {{}}}}

\* forecast_data.csv as an earlier run left it
StaleForecast ==
    DataFrame(<<[date |-> 0, predicted_sales |-> 1, lower_ci |-> 0, upper_ci |-> 2]>>)

InitCalls ==
    /\ call \in PredictCalls \cup EvaluateCalls \cup ParamCalls \cup SelectCalls
                 \cup PrepareCalls
    /\ result = None
    /\ pc = "call"
    /\ daily_sales_csv = None
    /\ historical_data = None
    /\ validation = None
    /\ model = None
    /\ forecast_data = None
    /\ forecast_csv \in IF call.fn = "make_future_predictions"
                        THEN {None, StaleForecast} ELSE {None}
    /\ test_period = 0
    /\ train_data = None
    /\ test_data = None
    /\ test_model = None
    /\ metrics = None
    /\ log = <<>>
    /\ outcome = "running"
    /\ trainer_calls = <<>>
    /\ stages = <<>>
    /\ forecast_by = None
    /\ metrics_by = None

\* stages lists the library calls the function made
CallMakeFuturePredictions ==
    /\ pc = "call"
    /\ call.fn = "make_future_predictions"
    /\ LET r == make_future_predictions(call.model, call.last_date, call.periods,
                                        call.fault, forecast_csv)
       IN  /\ result' = r.ret
           /\ forecast_csv' = r.csv
           /\ log' = log \o r.log
           /\ stages' = IF r.invoked THEN <<"get_forecast">> ELSE <<>>
    /\ pc' = "return"
    /\ UNCHANGED <<daily_sales_csv, historical_data, validation, model, forecast_data,
                   test_period, train_data, test_data, test_model, metrics, outcome,
                   trainer_calls, forecast_by, metrics_by, call>>

CallEvaluateForecast ==
    /\ pc = "call"
    /\ call.fn = "evaluate_forecast"
    /\ LET r == evaluate_forecast(call.actual, call.predicted)
       IN  /\ result' = r.ret
           /\ log' = log \o r.log
    /\ pc' = "return"
    /\ UNCHANGED <<daily_sales_csv, historical_data, validation, model, forecast_data,
                   forecast_csv, test_period, train_data, test_data, test_model,
                   metrics, outcome, trainer_calls, stages, forecast_by, metrics_by,
                   call>>

CallDetermineOptimalParameters ==
    /\ pc = "call"
    /\ call.fn = "determine_optimal_parameters"
    /\ result' = determine_optimal_parameters(call.data)
    /\ log' = Append(log, determine_optimal_parameters_log(call.data))
    /\ pc' = "return"
    /\ UNCHANGED <<daily_sales_csv, historical_data, validation, model, forecast_data,
                   forecast_csv, test_period, train_data, test_data, test_model,
                   metrics, outcome, trainer_calls, stages, forecast_by, metrics_by,
                   call>>

\* the first call of selectBest, and further calls on the same metrics;
\* result lists what the calls returned
CallSelectBest ==
    /\ pc = "call"
    /\ call.fn = "selectBest"
    /\ result' = <<selectBest(call.metricsByVariant)>>
    /\ pc' = "return"
    /\ UNCHANGED <<daily_sales_csv, historical_data, validation, model, forecast_data,
                   forecast_csv, test_period, train_data, test_data, test_model,
                   metrics, log, outcome, trainer_calls, stages, forecast_by,
                   metrics_by, call>>

CallSelectBestAgain ==
    /\ pc = "return"
    /\ call.fn = "selectBest"
    /\ Len(result) < MaxRepeat
    /\ result' = Append(result, selectBest(call.metricsByVariant))
    /\ UNCHANGED <<daily_sales_csv, pc, historical_data, validation, model,
                   forecast_data, forecast_csv, test_period, train_data, test_data,
                   test_model, metrics, log, outcome, trainer_calls, stages,
                   forecast_by, metrics_by, call>>

\* time_series_analysis.main: aggregate, fill the gaps, decompose and plot
\* (seasonal_decompose needs two full periods; these steps may also fail for a
\* reason of their own), then save daily_sales_processed.csv
CallTimeSeriesMain ==
    /\ pc = "call"
    /\ call.fn = "time_series_analysis.main"
    /\ \E fault \in BOOLEAN :
         LET daily_sales == aggregate_sales_data(call.df)
             complete_daily_sales == handle_missing_data(daily_sales)
             analysed == /\ ~complete_daily_sales.raised
                         /\ Len(complete_daily_sales.ret.rows) >= 2 * DECOMPOSE_PERIOD
                         /\ ~fault
         IN  /\ result' = complete_daily_sales.ret
             /\ daily_sales_csv' =
                    IF analysed THEN CsvFile("amount", complete_daily_sales.ret.rows)
                    ELSE daily_sales_csv
             /\ outcome' = IF analysed THEN "completed" ELSE "failed"
             /\ log' = log \o
                    <<Entry("print", "Loading and preparing time series data..."),
                      Entry("print", "Aggregating sales data..."),
                      Entry("print", "Handling missing data...")>> \o
                    (IF analysed
                     THEN <<Entry("print", "Saving processed data..."),
                            Entry("print", "Time series analysis completed successfully!")>>
                     ELSE <<Entry("print", "Error occurred during time series analysis")>>)
    /\ pc' = "return"
    /\ UNCHANGED <<historical_data, validation, model, forecast_data, forecast_csv,
                   test_period, train_data, test_data, test_model, metrics,
                   trainer_calls, stages, forecast_by, metrics_by, call>>

NextCalls ==
    \/ CallTimeSeriesMain
    \/ CallMakeFuturePredictions
    \/ CallEvaluateForecast
    \/ CallDetermineOptimalParameters
    \/ CallSelectBest
    \/ CallSelectBestAgain

SpecCalls == InitCalls /\ [][NextCalls]_vars

(***************************************************************************)
(* Vocabulary of the properties                                            *)
(***************************************************************************)
Last(seq) == seq[Len(seq)]

IsPrefix(s, t) == Len(s) <= Len(t) /\ SubSeq(t, 1, Len(s)) = s

\* the reason a validate_data outcome stands for, read off the record it logged
ReasonOf(v) ==
    IF v.ok THEN "Accepted"
    ELSE LET m == v.log[1].msg
         IN  CASE m = "Input data is empty" -> "EmptySeries"
               [] m = "Insufficient data points for forecasting (minimum 14 required)" -> "InsufficientData"
               [] m = "Missing values detected in sales data" -> "MissingValues"
               [] m = "Negative sales values detected" -> "NegativeValues"
               [] OTHER -> "Unknown"

Validated == validation # None
Rejected == Validated /\ ~validation.ok

\* the input, seen without validate_data
InputRows == IF daily_sales_csv = None THEN <<>> ELSE daily_sales_csv.rows
HasMissing == \E i \in 1..Len(InputRows) : InputRows[i].isnull
HasNegative == \E i \in 1..Len(InputRows) : ~InputRows[i].isnull /\ InputRows[i].amount < 0
Unfit == daily_sales_csv = None \/ Len(InputRows) < MIN_HISTORY \/ HasMissing \/ HasNegative

(***************************************************************************)
(* C1: train_sarima_model is never called unless the loaded series passed  *)
(* validate_data and has at least 30 points; a run on a series that is     *)
(* empty, shorter than 14, has a missing or a negative value, or has       *)
(* 14..29 points ends failed with no trainer call.                         *)
(***************************************************************************)
C1_NoTrainerBeforeValidation ==
    /\ trainer_calls # <<>> =>
          /\ Validated /\ validation.ok
          /\ ~Unfit
    /\ (pc = "done" /\ Unfit) => (outcome = "failed" /\ trainer_calls = <<>>)

C1_Witness ==
    /\ pc = "done" /\ outcome = "failed" /\ trainer_calls = <<>>
    /\ Validated /\ validation.ok
    /\ Len(InputRows) >= MIN_POINTS /\ Len(InputRows) < MIN_HISTORY

(***************************************************************************)
(* C2 (as stated): the future forecast is produced only after the          *)
(* train/test split and the evaluation of the held-out window.             *)
(***************************************************************************)
InStages(name) == \E i \in 1..Len(stages) : stages[i] = name

CodeOrder == <<"validate", "train_full", "forecast", "split", "train_slice",
               "evaluate", "visualize", "report">>

C3_FailedRunWritesNoForecast ==
    outcome = "failed" => forecast_csv = None

(***************************************************************************)
(* C4 (as stated): every series with fewer than 14 points, the empty one   *)
(* included, is rejected with InsufficientData.                            *)
(***************************************************************************)
C4_ShortIsInsufficient ==
    (Validated /\ Len(InputRows) < MIN_POINTS) => ReasonOf(validation) = "InsufficientData"

(***************************************************************************)
(* C4 (amended): every series with 1..13 points is rejected with           *)
(* InsufficientData, whatever its values; the empty series is rejected     *)
(* with EmptySeries.                                                       *)
(***************************************************************************)
C4_ShortIsInsufficientOrEmpty ==
    (Validated /\ Len(InputRows) < MIN_POINTS) =>
        ReasonOf(validation) = (IF Len(InputRows) = 0 THEN "EmptySeries"
                                ELSE "InsufficientData")

C4_Witness ==
    /\ Validated /\ Len(InputRows) > 0 /\ Len(InputRows) < MIN_POINTS
    /\ HasMissing /\ HasNegative
    /\ ReasonOf(validation) = "InsufficientData"

(***************************************************************************)
(* C5 (as stated): every series with a negative value is rejected with     *)
(* NegativeValues, whatever its length and its missing values.             *)
(***************************************************************************)
C5_NegativeAlwaysNegativeValues ==
    (Validated /\ HasNegative) => ReasonOf(validation) = "NegativeValues"

(***************************************************************************)
(* C5 (amended): every series with a negative value is rejected; the       *)
(* reason is NegativeValues when it has at least 14 points and no missing  *)
(* value, MissingValues when it has at least 14 points and a missing       *)
(* value, and InsufficientData when it has 1..13 points.                   *)
(***************************************************************************)
C5_NegativeRejectedInCheckOrder ==
    (Validated /\ HasNegative) =>
        /\ ~validation.ok
        /\ ReasonOf(validation) =
             (IF Len(InputRows) < MIN_POINTS THEN "InsufficientData"
              ELSE IF HasMissing THEN "MissingValues"
              ELSE "NegativeValues")

C5_Witness ==
    /\ Validated /\ HasNegative /\ ~HasMissing /\ Len(InputRows) >= MIN_HISTORY
    /\ ReasonOf(validation) = "NegativeValues"
    /\ pc = "done" /\ outcome = "failed"

(***************************************************************************)
(* C6 (as stated): the rejection reason reaches main's caller: a run       *)
(* rejected for another reason than EmptySeries ends in an outcome its     *)
(* caller can tell from that of a run rejected for EmptySeries.            *)
(***************************************************************************)
\* what main holds and does once load_processed_data has returned
MainView == [loaded |-> historical_data, said |-> Last(log), outcome |-> outcome]

EmptyRunView ==
    [loaded  |-> load_processed_data(CsvFile("amount", <<>>)).ret,
     said    |-> Entry("error", "Failed to load valid data"),
     outcome |-> "failed"]

C7_ValidationPure ==
    Validated =>
        /\ validation.df = DataFrame(InputRows)
        /\ validate_data(validation.df).ok = validation.ok
        /\ validate_data(validation.df).log = validation.log
        /\ (historical_data # None => historical_data.rows = InputRows)

C7_Witness ==
    Validated /\ HasMissing /\ Len(InputRows) >= MIN_POINTS /\ ~validation.ok

(***************************************************************************)
(* C8: the held-out window has min(30, floor(n/3)) points and they are the *)
(* most recent points of the series.                                       *)
(***************************************************************************)
C8_TestWindow ==
    test_data # None =>
        LET n == Len(historical_data.rows)
            k == IF n \div 3 < 30 THEN n \div 3 ELSE 30
        IN  /\ test_period = k
            /\ Len(test_data.rows) = k
            /\ \A i \in 1..Len(test_data.rows) :
                   test_data.rows[i] = historical_data.rows[n - k + i]

C8_Witness ==
    /\ test_data # None
    /\ Len(historical_data.rows) \div 3 > 30
    /\ Len(test_data.rows) = 30

(***************************************************************************)
(* C9: train and test partition the series: train followed by test is the  *)
(* series, no date is in both, both are non-empty, every train date is     *)
(* before every test date.                                                 *)
(***************************************************************************)
Dates(df) == {df.rows[i].date : i \in 1..Len(df.rows)}

C9_TrainTestPartition ==
    test_data # None =>
        /\ train_data # None
        /\ train_data.rows \o test_data.rows = historical_data.rows
        /\ Dates(train_data) \cap Dates(test_data) = {}
        /\ Len(train_data.rows) > 0 /\ Len(test_data.rows) > 0
        /\ \A d \in Dates(train_data) : \A e \in Dates(test_data) : d < e

C9_Witness ==
    /\ test_data # None /\ train_data # None
    /\ Len(historical_data.rows) = MIN_HISTORY
    /\ Len(train_data.rows) = 20 /\ Len(test_data.rows) = 10

(***************************************************************************)
(* C10: the forecast a run emits comes from the model fitted on the full   *)
(* series, never from the one fitted on the training slice; the metrics    *)
(* come from the model fitted on the training slice.                       *)
(***************************************************************************)
C10_ForecastFromFullModel ==
    /\ forecast_data # None =>
          /\ forecast_by # None
          /\ forecast_by.trainedOn = historical_data.rows
          /\ forecast_csv = forecast_data
          /\ train_data # None => forecast_by.trainedOn # train_data.rows
    /\ metrics_by # None =>
          /\ metrics # None
          /\ metrics_by = test_model
          /\ metrics_by.trainedOn = train_data.rows
          /\ metrics_by.trainedOn # historical_data.rows

C10_Witness ==
    /\ pc = "done" /\ outcome = "completed"
    /\ forecast_by # None /\ metrics_by # None
    /\ forecast_by.trainedOn = historical_data.rows
    /\ metrics_by.trainedOn = train_data.rows

(***************************************************************************)
(* Vocabulary of the properties about errors, calls and metrics            *)
(***************************************************************************)
Count(msg) == Cardinality({i \in 1..Len(log) : log[i].msg = msg})
Logged(msg) == Count(msg) > 0

TrainingError == Logged("Error training model")
ForecastingError ==
    \/ Logged("Error generating predictions")
    \/ Logged("Invalid forecast period")
    \/ Logged("Invalid model type")
EvaluatingError ==
    \/ Logged("Error calculating forecast metrics")
    \/ Logged("Error calculating metrics")
ReportedCompleted == Logged("Sales forecasting analysis completed successfully!")

Returned(fn) == pc = "return" /\ call # None /\ call.fn = fn

(***************************************************************************)
(* C11: a successful make_future_predictions(model, d, N) with N > 0       *)
(* returns exactly N rows dated d+1, d+2, ..., d+N.                        *)
(***************************************************************************)
C11_ForecastDates ==
    (Returned("make_future_predictions") /\ result # None) =>
        /\ call.periods > 0
        /\ Len(result.rows) = call.periods
        /\ \A k \in 1..Len(result.rows) : result.rows[k].date = call.last_date + k
        /\ \A k \in 1..(Len(result.rows) - 1) :
               result.rows[k + 1].date = result.rows[k].date + 1

C11_Witness ==
    /\ Returned("make_future_predictions") /\ result # None
    /\ call.periods >= 3 /\ call.last_date > 0
    /\ Len(result.rows) = call.periods

(***************************************************************************)
(* C12: in every row of the forecast the pipeline emits, lower_ci is the   *)
(* model's lower bound, upper_ci its upper bound and predicted_sales its   *)
(* predicted mean of the same step, so lower_ci <= predicted_sales <=      *)
(* upper_ci.                                                               *)
(***************************************************************************)
C12_BoundsBracketPrediction ==
    forecast_data # None =>
        /\ forecast_csv = forecast_data
        /\ Len(forecast_data.rows) = DEFAULT_PERIODS
        /\ \A k \in 1..Len(forecast_data.rows) :
              LET row == forecast_data.rows[k]
                  step == get_forecast(model, DEFAULT_PERIODS)[k]
              IN  /\ row.lower_ci <= row.predicted_sales
                  /\ row.predicted_sales <= row.upper_ci
                  /\ row.lower_ci = step.lower
                  /\ row.upper_ci = step.upper
                  /\ row.predicted_sales = step.predicted_mean

C12_Witness ==
    /\ pc = "done" /\ outcome = "completed" /\ forecast_data # None
    /\ forecast_data.rows[DEFAULT_PERIODS].lower_ci
           < forecast_data.rows[DEFAULT_PERIODS].predicted_sales
    /\ forecast_data.rows[DEFAULT_PERIODS].predicted_sales
           < forecast_data.rows[DEFAULT_PERIODS].upper_ci

(***************************************************************************)
(* C13 (as stated): an error in the training, evaluating or forecasting    *)
(* step ends the run failed; such a run is never reported as completed.    *)
(***************************************************************************)
C13_AnyErrorFailsRun ==
    (pc = "done" /\ (TrainingError \/ ForecastingError \/ EvaluatingError)) =>
        (outcome = "failed" /\ ~ReportedCompleted)

(***************************************************************************)
(* C13 (amended): an error in training (on the full series or on the       *)
(* training slice) or in forecasting ends the run failed, the last record  *)
(* logged naming the step, and the run is not reported as completed; an    *)
(* error in evaluating does not fail the run: both metrics are NaN and the *)
(* run goes on to completed.                                               *)
(***************************************************************************)
C13_TrainOrForecastErrorFailsRun ==
    /\ (TrainingError \/ ForecastingError) =>
          /\ pc = "done" /\ outcome = "failed" /\ ~ReportedCompleted
          /\ Last(log) = Entry("error",
                 IF ForecastingError THEN "Failed to generate predictions"
                 ELSE IF test_data = None THEN "Failed to train model"
                 ELSE "Failed to train test model")
    /\ EvaluatingError =>
          /\ metrics = [RMSE |-> NaN, MAPE |-> NaN]
          /\ outcome # "failed"
          /\ pc = "done" => (outcome = "completed" /\ ReportedCompleted)

C13_Witness ==
    /\ pc = "done" /\ outcome = "failed" /\ TrainingError /\ test_data # None
    /\ Last(log) = Entry("error", "Failed to train test model")

(***************************************************************************)
(* C14: no retry and termination: the trainer is called at most once on    *)
(* the full series and then at most once on the training slice, a failed   *)
(* training or forecasting call ends the run, and every run reaches the    *)
(* completed or the failed outcome.                                        *)
(***************************************************************************)
NoRetry ==
    /\ Len(trainer_calls) <= 2
    /\ Len(trainer_calls) >= 1 => trainer_calls[1] = historical_data
    /\ Len(trainer_calls) = 2 => (trainer_calls[2] = train_data /\ model # None)
    /\ Count("Training SARIMA model...") = Len(trainer_calls)
    /\ Count("Generating predictions") <= 1
    /\ Count("Error training model") <= 1
    /\ (TrainingError \/ ForecastingError) => pc = "done"

Terminated == pc = "done" /\ outcome \in {"completed", "failed"}

C14_NoRetryAndTerminates == []NoRetry /\ <>Terminated

C14_Witness ==
    /\ Terminated /\ outcome = "failed" /\ Len(trainer_calls) = 2
    /\ test_model = None /\ Count("Error training model") = 1

ScoringUndefined ==
    test_data # None /\ \E i \in 1..Len(test_data.rows) : test_data.rows[i].amount = 0

C16_UndefinedScoreIsNaN ==
    (metrics # None /\ (EvaluatingError \/ ScoringUndefined)) =>
        /\ metrics.RMSE = NaN /\ metrics.MAPE = NaN
        /\ pc = "done" => outcome = "completed"

(***************************************************************************)
(* C17: the warning "High forecast error" is logged exactly when the MAPE  *)
(* of the held-out window exceeds 50, and a run with such a MAPE still     *)
(* reaches the completed outcome with its forecast and metrics.            *)
(***************************************************************************)
HighMape ==
    /\ metrics # None
    /\ ~metrics.MAPE.nan
    /\ (metrics.MAPE.huge > 0 \/ metrics.MAPE.v > 5000)

Warned == Logged("High forecast error, predictions may be unreliable")

WarnedIffHighMape ==
    /\ Warned <=> HighMape
    /\ (HighMape /\ pc = "done") => (outcome = "completed" /\ forecast_data # None)

C17_HighMapeWarnsAndCompletes ==
    /\ []WarnedIffHighMape
    /\ HighMape ~> (outcome = "completed" /\ forecast_data # None /\ HighMape /\ Warned)

C17_Witness ==
    /\ pc = "done" /\ outcome = "completed" /\ HighMape /\ Warned
    /\ metrics.MAPE.huge = 0 /\ forecast_csv # None

(***************************************************************************)
(* C18: evaluate_forecast returns MAPE = NaN whenever an actual value is   *)
(* zero (sequences of equal length).                                       *)
(***************************************************************************)
C18_ZeroActualGivesNaN ==
    (/\ Returned("evaluate_forecast")
     /\ Len(call.actual) = Len(call.predicted)
     /\ \E i \in 1..Len(call.actual) : call.actual[i] = 0) =>
        result.MAPE = NaN

(***************************************************************************)
(* C19 (as stated): for sequences of equal length RMSE and MAPE are        *)
(* non-negative numbers and RMSE is 0 exactly when predicted equals actual *)
(* at every position.                                                      *)
(***************************************************************************)
NonNegativeMetrics ==
    /\ ~result.RMSE.nan /\ result.RMSE.v >= 0
    /\ ~result.MAPE.nan /\ result.MAPE.v >= 0 /\ result.MAPE.huge >= 0
    /\ (result.RMSE.v = 0) <=> (call.predicted = call.actual)

C20_ParametersByLength ==
    (Returned("determine_optimal_parameters") /\ Sized(call.data)) =>
        result = [order |-> <<1, 1, 1>>,
                  seasonal_order |-> <<1, 1, 1,
                      IF Len(call.data.rows) >= 365 THEN 12 ELSE 7>>]

C20_Witness ==
    /\ Returned("determine_optimal_parameters")
    /\ Sized(call.data)
    /\ Len(call.data.rows) = 365
    /\ result.seasonal_order = <<1, 1, 1, 12>>

(***************************************************************************)
(* C21: determine_optimal_parameters returns a parameter pair for every    *)
(* argument, also one whose length cannot be taken; in that case an error  *)
(* is logged and the pair is exactly (1,1,1) and (1,1,1,7).                *)
(***************************************************************************)
IsParameterPair(r) ==
    /\ r # None
    /\ DOMAIN r = {"order", "seasonal_order"}
    /\ r.order = <<1, 1, 1>>
    /\ Len(r.seasonal_order) = 4
    /\ SubSeq(r.seasonal_order, 1, 3) = <<1, 1, 1>>
    /\ r.seasonal_order[4] \in {WEEKLY_PERIOD, MONTHLY_PERIOD}

C21_SelectorNeverFails ==
    Returned("determine_optimal_parameters") =>
        /\ IsParameterPair(result)
        /\ Len(log) = 1
        /\ ~Sized(call.data) =>
              /\ result = [order |-> <<1, 1, 1>>, seasonal_order |-> <<1, 1, 1, 7>>]
              /\ log[1].level = "error"
        /\ Sized(call.data) => log[1].level = "info"

C21_Witness ==
    /\ Returned("determine_optimal_parameters")
    /\ call.data = None
    /\ result = [order |-> <<1, 1, 1>>, seasonal_order |-> <<1, 1, 1, 7>>]
    /\ Logged("Error determining parameters")

(***************************************************************************)
(* C23: the label of the value column does not matter: a run on a file     *)
(* validates and loads exactly what a run on the same rows labelled        *)
(* "amount" validates and loads.                                           *)
(***************************************************************************)
Relabelled(file) == [file EXCEPT !.column = "amount"]

C23_AnyLabelAccepted ==
    (call = None /\ pc # "load" /\ daily_sales_csv # None) =>
        LET twin == load_processed_data(Relabelled(daily_sales_csv))
        IN  /\ (Validated /\ validation.ok) <=> (twin.validation # None /\ twin.validation.ok)
            /\ historical_data = twin.ret
            /\ (pc = "done" /\ outcome = "failed" /\ trainer_calls = <<>>) =>
                   (twin.ret = None \/ Len(twin.ret.rows) < MIN_HISTORY)

(***************************************************************************)
(* Vocabulary of the properties about both pipelines                       *)
(***************************************************************************)
ProphetRun == call # None /\ call.fn = "sales_predictions.main"
SarimaRun == call = None /\ pc # "call"

LastKnownDate == historical_data.rows[Len(historical_data.rows)].date

\* the dates of the forecast that lie beyond the last known date
ForecastDays ==
    IF ProphetRun
    THEN {forecast_data.rows[k].ds : k \in 1..Len(forecast_data.rows)}
             \ {d \in Int : d <= LastKnownDate}
    ELSE {forecast_data.rows[k].date : k \in 1..Len(forecast_data.rows)}
             \ {d \in Int : d <= LastKnownDate}

(***************************************************************************)
(* C22 (as stated): a run of either pipeline that produces a forecast      *)
(* forecasts exactly 180 days beyond the last known date.                  *)
(***************************************************************************)
C22_Default180Everywhere ==
    forecast_data # None => Cardinality(ForecastDays) = 180

(***************************************************************************)
(* C22 (amended): a run of the SARIMA pipeline forecasts exactly the 180   *)
(* days after the last known date; a run of the Prophet pipeline forecasts *)
(* exactly the 365 days after the last known date.                         *)
(***************************************************************************)
C22_DefaultHorizonPerPipeline ==
    forecast_data # None =>
        LET horizon == IF ProphetRun THEN 365 ELSE 180
        IN  ForecastDays = (LastKnownDate + 1)..(LastKnownDate + horizon)

C22_Witness ==
    /\ ProphetRun /\ pc = "done" /\ outcome = "completed"
    /\ forecast_data # None
    /\ Cardinality(ForecastDays) = 365
    /\ Len(forecast_data.rows) = Len(historical_data.rows) + 365

(***************************************************************************)
(* C24: in either pipeline a model is fitted only on a series that         *)
(* validate_data accepts: never on one that is empty, shorter than 14,     *)
(* or has a missing or a negative value.                                   *)
(***************************************************************************)
C24_FitsOnlyValidatedSeries ==
    model # None =>
        \A i \in 1..Len(trainer_calls) : validate_data(trainer_calls[i]).ok

(***************************************************************************)
(* C25: selectBest returns an evaluated variant whose RMSE is the minimum  *)
(* over the evaluated variants; among the variants that tie on the minimum *)
(* it returns the one declared first; repeated calls on the same metrics   *)
(* return the same variant.                                                *)
(***************************************************************************)
DeclaredAt(v) == CHOOSE i \in 1..Len(Variants) : Variants[i] = v

C25_SelectBestIsFirstArgmin ==
    Returned("selectBest") =>
        LET m == call.metricsByVariant
        IN  \A k \in 1..Len(result) :
                /\ result[k] \in DOMAIN m
                /\ \A v \in DOMAIN m : m[result[k]].RMSE <= m[v].RMSE
                /\ \A v \in DOMAIN m :
                       m[v].RMSE = m[result[k]].RMSE =>
                           DeclaredAt(result[k]) <= DeclaredAt(v)
                /\ result[k] = result[1]

C25_Witness ==
    /\ Returned("selectBest")
    /\ Len(result) = MaxRepeat
    /\ result[1] = "ARIMA"
    /\ DOMAIN call.metricsByVariant = {"HoltWinters", "ARIMA", "SARIMA", "LSTM"}
    /\ call.metricsByVariant["ARIMA"].RMSE = call.metricsByVariant["LSTM"].RMSE
    /\ call.metricsByVariant["HoltWinters"].RMSE > call.metricsByVariant["ARIMA"].RMSE

(***************************************************************************)
(* C26: the daily series time_series_analysis.main saves for the           *)
(* forecasting scripts (order dates being dates) has exactly one row for   *)
(* every day from the first to the last order date, in strictly increasing *)
(* order; a day with orders carries the value aggregated for it and a day  *)
(* without orders carries 0; no value is missing.                          *)
(***************************************************************************)
OrderDates == {call.df[i].order_date : i \in 1..Len(call.df)}

BadHorizon == call.periods <= 0
BadHandle == call.model = None \/ call.model.kind \notin {"SARIMAX", "SARIMAXResults"}

ShortWindowWarned ==
    Logged("Test period is less than 7 days, forecast accuracy metrics may be unreliable")

C28_SplitWindowBounds ==
    /\ InStages("split") =>
          /\ Len(historical_data.rows) >= 30
          /\ test_period >= 10 /\ test_period <= 30
          /\ Len(test_data.rows) = test_period
          /\ Len(train_data.rows) >= 20
    /\ ~ShortWindowWarned

C28_Witness ==
    /\ InStages("split") /\ pc = "done" /\ outcome = "completed"
    /\ test_period = 30 /\ Len(train_data.rows) > 60
    /\ ~ShortWindowWarned

(***************************************************************************)
(* C29: validate_data checks empty, fewer than 14 points, missing value,   *)
(* negative value in this order and stops at the first check that fails:   *)
(* it logs exactly one record when it rejects and none when it accepts,    *)
(* and a series of at least 14 points with a missing and a negative value  *)
(* is rejected for its missing values, at warning level.                   *)
(***************************************************************************)
FirstFailingCheck ==
    IF Len(InputRows) = 0 THEN Entry("error", "Input data is empty")
    ELSE IF Len(InputRows) < 14
    THEN Entry("error", "Insufficient data points for forecasting (minimum 14 required)")
    ELSE IF HasMissing THEN Entry("warning", "Missing values detected in sales data")
    ELSE IF HasNegative THEN Entry("error", "Negative sales values detected")
    ELSE None

C29_ChecksInOrderOneReason ==
    Validated =>
        /\ validation.ok <=> FirstFailingCheck = None
        /\ validation.ok => validation.log = <<>>
        /\ ~validation.ok => validation.log = <<FirstFailingCheck>>
        /\ Count("Input data is empty")
             + Count("Insufficient data points for forecasting (minimum 14 required)")
             + Count("Missing values detected in sales data")
             + Count("Negative sales values detected")
             = (IF validation.ok THEN 0 ELSE 1)

C29_Witness ==
    /\ Validated /\ Len(InputRows) >= 14 /\ HasMissing /\ HasNegative
    /\ validation.log = <<Entry("warning", "Missing values detected in sales data")>>
    /\ ~Logged("Negative sales values detected")

(***************************************************************************)
(* C30: once the future forecast has been generated and the model of the   *)
(* training slice trained, the run reaches the completed outcome, whether  *)
(* or not visualize_forecast or generate_forecast_report raised, and the   *)
(* forecast written to forecast_data.csv is not changed afterwards.        *)
(***************************************************************************)
RenderingError ==
    \/ Logged("Error creating visualizations")
    \/ Logged("Error generating forecast report")

ReadyToRender == forecast_data # None /\ test_model # None

C30_RenderFailureKeepsOutcome ==
    /\ [](RenderingError => (outcome # "failed" /\ forecast_csv = forecast_data))
    /\ [][forecast_data # None =>
              (forecast_csv' = forecast_csv /\ forecast_data' = forecast_data)]_vars
    /\ ReadyToRender ~>
           (pc = "done" /\ outcome = "completed" /\ forecast_csv = forecast_data)

C30_Witness ==
    /\ pc = "done" /\ outcome = "completed"
    /\ Logged("Error creating visualizations")
    /\ Logged("Error generating forecast report")
    /\ forecast_csv # None /\ forecast_csv = forecast_data

====
